---- MODULE Spec2Model ----
(***************************************************************************)
(* Model of base/numerics/basic_ops_impl.h: MathType, SwapBytes,           *)
(* FromLittleEndian and ToLittleEndian.                                    *)
(*                                                                         *)
(* An unsigned value of a w-byte type is a "word": a sequence of w base-256*)
(* digits, digit 1 being the least significant (weight 256^0).  This is    *)
(* the numeric value, not its layout in memory; shifts, masks and ors are  *)
(* multi-digit arithmetic on it.  A signed value is a sign and a magnitude *)
(* [neg, mag], mag being a word; -2 as int16 is [neg |-> TRUE,             *)
(* mag |-> <<2, 0>>].  A byte sequence (span / std::array of uint8_t) is a *)
(* sequence of numbers in 0..255, element 1 being index 0 of the array.    *)
(***************************************************************************)
EXTENDS Integers, Sequences, FiniteSets

VARIABLES compiler, op, T, constEval, arg, res, shifts

vars == <<compiler, op, T, constEval, arg, res, shifts>>

----------------------------------------------------------------------------
(* Bounds and input sets *)

MaxSamples == 2

SampleBytes == <<0, 255, 1, 128>>

ByteSet == {SampleBytes[k] : k \in 1..MaxSamples}

Widths == {1, 2, 4, 8}

Byte == 0..255

WordsOver(S, w) == [1..w -> S]

\* 0x1234, 0xFFFE, 0xAABBCCDD, 0x0102030405060708 (least significant digit first)
KnownWords ==
  { <<52, 18>>, <<254, 255>>, <<221, 204, 187, 170>>,
    <<8, 7, 6, 5, 4, 3, 2, 1>> }

Words(w) ==
  IF w = 1 THEN WordsOver(Byte, 1)
  ELSE WordsOver(ByteSet, w) \cup {k \in KnownWords : Len(k) = w}

ByteSeqs(w) == Words(w)

\* int16(-2)
KnownSigned == {[neg |-> TRUE, mag |-> <<2, 0>>]}

Zero(w) == [i \in 1..w |-> 0]

\* 2^(8w-1), the magnitude of the most negative value of a w-byte signed type
MinMagnitude(w) == [i \in 1..w |-> IF i = w THEN 128 ELSE 0]

SignedValues(w) ==
  {[neg |-> FALSE, mag |-> m] : m \in {x \in Words(w) : x[w] < 128}}
  \cup {[neg |-> TRUE, mag |-> m] :
          m \in {x \in Words(w) : x[w] < 128 /\ x # Zero(w)}}
  \cup {[neg |-> TRUE, mag |-> MinMagnitude(w)]}
  \cup {k \in KnownSigned : Len(k.mag) = w}

\* bool: std::is_integral_v<bool> and std::is_unsigned_v<bool> hold and
\* sizeof(bool) is 1, so every template of the header accepts it
BoolType == [size |-> 1, signed |-> FALSE, bool |-> TRUE]

IntegralTypes == [size : Widths, signed : BOOLEAN, bool : {FALSE}] \cup {BoolType}

\* the types the unsigned templates accept
UnsignedTypes == {t \in IntegralTypes : ~t.signed}

\* the values of an unsigned type: false and true for bool
Values(t) == IF t.bool THEN {<<0>>, <<1>>} ELSE Words(t.size)

Compilers == {"gnu", "msvc", "other"}

----------------------------------------------------------------------------
(* Fixed-width unsigned arithmetic on words *)

RECURSIVE NatAnd(_, _)
NatAnd(a, b) ==
  IF a = 0 \/ b = 0 THEN 0
  ELSE (a % 2) * (b % 2) + 2 * NatAnd(a \div 2, b \div 2)

RECURSIVE NatOr(_, _)
NatOr(a, b) ==
  IF a = 0 THEN b
  ELSE IF b = 0 THEN a
  ELSE (IF a % 2 = 1 \/ b % 2 = 1 THEN 1 ELSE 0)
       + 2 * NatOr(a \div 2, b \div 2)

WordAnd(x, y) == [i \in 1..Len(x) |-> NatAnd(x[i], y[i])]

WordOr(x, y) == [i \in 1..Len(x) |-> NatOr(x[i], y[i])]

\* x >> n on a word of Len(x) bytes, 0 <= n < 8 * Len(x)
ShiftRight(x, n) ==
  LET q == n \div 8
      r == n % 8
      D(i) == IF i <= Len(x) THEN x[i] ELSE 0
  IN  [i \in 1..Len(x) |->
         (D(i + q) \div (2 ^ r)) + (D(i + q + 1) % (2 ^ r)) * (2 ^ (8 - r))]

\* x << n on a word of Len(x) bytes, 0 <= n < 8 * Len(x); high bits are lost
ShiftLeft(x, n) ==
  LET q == n \div 8
      r == n % 8
      D(i) == IF i >= 1 THEN x[i] ELSE 0
  IN  [i \in 1..Len(x) |->
         ((D(i - q) * (2 ^ r)) % 256) + (D(i - q - 1) \div (2 ^ (8 - r)))]

\* conversion between unsigned types: zero extension or truncation
Convert(x, w) == [i \in 1..w |-> IF i <= Len(x) THEN x[i] ELSE 0]

\* conversion of an unsigned value to the unsigned type t: to bool, whether
\* the value is not zero; to any other type, zero extension or truncation
ConvertTo(t, x) ==
  IF t.bool
    THEN (IF x = [i \in 1..Len(x) |-> 0] THEN <<0>> ELSE <<1>>)
    ELSE Convert(x, t.size)

\* U{n} for a literal 0 <= n <= 255
Literal(n, w) == [i \in 1..w |-> IF i = 1 THEN n ELSE 0]

\* two's complement negation modulo 2^(8 * Len(x))
RECURSIVE AddCarry(_, _)
AddCarry(x, c) ==
  IF x = <<>> THEN <<>>
  ELSE <<(x[1] + c) % 256>> \o AddCarry(Tail(x), (x[1] + c) \div 256)

Negate(x) == AddCarry([i \in 1..Len(x) |-> 255 - x[i]], 1)

\* a shift that was executed: its amount and the bit width of its left operand
Shift(n, w) == [amount |-> n, bits |-> 8 * w]

----------------------------------------------------------------------------
(* The platform *)

SizeofInt == 4

IntType == [size |-> SizeofInt, signed |-> TRUE, bool |-> FALSE]

UnsignedIntType == [size |-> SizeofInt, signed |-> FALSE, bool |-> FALSE]

\* Byte order of the host: every platform the run-time path supports is
\* little-endian.
HostIsLittleEndian == TRUE

Reverse(s) == [i \in 1..Len(s) |-> s[Len(s) + 1 - i]]

\* the bytes of an unsigned object in memory, lowest address first
ObjectRepresentation(x) == IF HostIsLittleEndian THEN x ELSE Reverse(x)

\* the value of the unsigned object whose bytes in memory are b
ValueOfRepresentation(b) == IF HostIsLittleEndian THEN b ELSE Reverse(b)

\* memcpy(dst, src, n): the n bytes now stored at dst
Memcpy(src, n) == SubSeq(src, 1, n)

\* size of the type an operand of size w has after integer promotion
PromotedSize(w) == IF w < SizeofInt THEN SizeofInt ELSE w

\* static_cast<std::make_unsigned_t<T>>(value): value modulo 2^(8 * sizeof(T))
ToUnsigned(s) == IF s.neg THEN Negate(s.mag) ELSE s.mag

\* static_cast<T>(u) for signed T: the value congruent to u modulo
\* 2^(8 * sizeof(T)) that T can represent
ToSigned(u) ==
  IF u[Len(u)] >= 128
    THEN [neg |-> TRUE, mag |-> Negate(u)]
    ELSE [neg |-> FALSE, mag |-> u]

----------------------------------------------------------------------------
(* basic_ops_impl.h *)

cxx17_is_constant_evaluated(c, inConstantExpression) ==
  IF c = "gnu" THEN inConstantExpression ELSE FALSE

\* as MathType, with int chosen for every narrow type
MathTypeSignedOnly(t) ==
  IF t.size >= SizeofInt THEN t ELSE IntType

MathType(t) ==
  IF t.size >= SizeofInt THEN t
  ELSE IF t.signed THEN IntType ELSE UnsignedIntType

\* __builtin_bswap16 / __builtin_bswap32 / __builtin_bswap64
builtin_bswap(x) == Reverse(x)

\* _byteswap_ushort / _byteswap_ulong / _byteswap_uint64
msvc_byteswap(x) == Reverse(x)

\* sizeof(T) == 2 in the constant-evaluated branch of SwapBytes
SwapBytesConstant2(value) ==
  LET m == MathType([size |-> 2, signed |-> FALSE, bool |-> FALSE]).size
      a == WordAnd(ShiftRight(Convert(value, m), 0), Literal(255, m))
      b == WordAnd(ShiftRight(Convert(value, m), 8), Literal(255, m))
  IN  [value |-> Convert(WordOr(ShiftLeft(a, 8), ShiftLeft(b, 0)), 2),
       shifts |-> {Shift(0, m), Shift(8, m)}]

\* as SwapBytesConstant4, with b and c put back where they came from
SwapBytesConstant4MiddleKept(value) ==
  LET a == WordAnd(ShiftRight(value, 0), Literal(255, 4))
      b == WordAnd(ShiftRight(value, 8), Literal(255, 4))
      c == WordAnd(ShiftRight(value, 16), Literal(255, 4))
      d == WordAnd(ShiftRight(value, 24), Literal(255, 4))
  IN  [value |-> WordOr(WordOr(WordOr(ShiftLeft(a, 24), ShiftLeft(b, 8)),
                               ShiftLeft(c, 16)), ShiftLeft(d, 0)),
       shifts |-> {Shift(0, 4), Shift(8, 4), Shift(16, 4), Shift(24, 4)}]

\* sizeof(T) == 4 in the constant-evaluated branch of SwapBytes
SwapBytesConstant4(value) ==
  LET a == WordAnd(ShiftRight(value, 0), Literal(255, 4))
      b == WordAnd(ShiftRight(value, 8), Literal(255, 4))
      c == WordAnd(ShiftRight(value, 16), Literal(255, 4))
      d == WordAnd(ShiftRight(value, 24), Literal(255, 4))
  IN  [value |-> WordOr(WordOr(WordOr(ShiftLeft(a, 24), ShiftLeft(b, 16)),
                               ShiftLeft(c, 8)), ShiftLeft(d, 0)),
       shifts |-> {Shift(0, 4), Shift(8, 4), Shift(16, 4), Shift(24, 4)}]

\* as SwapBytesConstant8, with e shifted left by 32 instead of 24
SwapBytesConstant8WrongShift(value) ==
  LET a == WordAnd(ShiftRight(value, 0), Literal(255, 8))
      b == WordAnd(ShiftRight(value, 8), Literal(255, 8))
      c == WordAnd(ShiftRight(value, 16), Literal(255, 8))
      d == WordAnd(ShiftRight(value, 24), Literal(255, 8))
      e == WordAnd(ShiftRight(value, 32), Literal(255, 8))
      f == WordAnd(ShiftRight(value, 40), Literal(255, 8))
      g == WordAnd(ShiftRight(value, 48), Literal(255, 8))
      h == WordAnd(ShiftRight(value, 56), Literal(255, 8))
  IN  [value |->
         WordOr(WordOr(WordOr(WordOr(WordOr(WordOr(WordOr(
           ShiftLeft(a, 56), ShiftLeft(b, 48)), ShiftLeft(c, 40)),
           ShiftLeft(d, 32)), ShiftLeft(e, 32)), ShiftLeft(f, 16)),
           ShiftLeft(g, 8)), ShiftLeft(h, 0)),
       shifts |-> {Shift(0, 8), Shift(8, 8), Shift(16, 8), Shift(24, 8),
                   Shift(32, 8), Shift(40, 8), Shift(48, 8), Shift(56, 8)}]

\* sizeof(T) == 8 in the constant-evaluated branch of SwapBytes
SwapBytesConstant8(value) ==
  LET a == WordAnd(ShiftRight(value, 0), Literal(255, 8))
      b == WordAnd(ShiftRight(value, 8), Literal(255, 8))
      c == WordAnd(ShiftRight(value, 16), Literal(255, 8))
      d == WordAnd(ShiftRight(value, 24), Literal(255, 8))
      e == WordAnd(ShiftRight(value, 32), Literal(255, 8))
      f == WordAnd(ShiftRight(value, 40), Literal(255, 8))
      g == WordAnd(ShiftRight(value, 48), Literal(255, 8))
      h == WordAnd(ShiftRight(value, 56), Literal(255, 8))
  IN  [value |->
         WordOr(WordOr(WordOr(WordOr(WordOr(WordOr(WordOr(
           ShiftLeft(a, 56), ShiftLeft(b, 48)), ShiftLeft(c, 40)),
           ShiftLeft(d, 32)), ShiftLeft(e, 24)), ShiftLeft(f, 16)),
           ShiftLeft(g, 8)), ShiftLeft(h, 0)),
       shifts |-> {Shift(0, 8), Shift(8, 8), Shift(16, 8), Shift(24, 8),
                   Shift(32, 8), Shift(40, 8), Shift(48, 8), Shift(56, 8)}]

\* the branch of SwapBytes taken when cxx17_is_constant_evaluated() is true
SwapBytesConstant(value) ==
  IF Len(value) = 1 THEN [value |-> value, shifts |-> {}]
  ELSE IF Len(value) = 2 THEN SwapBytesConstant2(value)
  ELSE IF Len(value) = 4 THEN SwapBytesConstant4(value)
  ELSE SwapBytesConstant8(value)

\* as SwapBytesIntrinsic, with the 16-bit intrinsic used for 4-byte types
SwapBytesIntrinsicNarrow(value, c) ==
  IF Len(value) = 1 THEN value
  ELSE IF Len(value) = 4
    THEN Convert(IF c = "msvc" THEN msvc_byteswap(Convert(value, 2))
                               ELSE builtin_bswap(Convert(value, 2)), 4)
  ELSE IF c = "msvc" THEN msvc_byteswap(value)
  ELSE builtin_bswap(value)

\* the branch of SwapBytes taken otherwise: the platform's intrinsic
SwapBytesIntrinsic(value, c) ==
  IF Len(value) = 1 THEN value
  ELSE IF c = "msvc" THEN msvc_byteswap(value)
  ELSE builtin_bswap(value)

\* SwapBytes for unsigned T
SwapBytes(value, c, inConstantExpression) ==
  IF cxx17_is_constant_evaluated(c, inConstantExpression)
    THEN SwapBytesConstant(value)
    ELSE [value |-> SwapBytesIntrinsic(value, c), shifts |-> {}]

\* as SwapBytesSigned, with the value sign-extended to the promoted width
\* before the swap and truncated after it
SwapBytesSignedExtended(value, c, inConstantExpression) ==
  LET u == ToUnsigned(value)
      p == PromotedSize(Len(u))
      ext == [i \in 1..p |->
                IF i <= Len(u) THEN u[i] ELSE IF value.neg THEN 255 ELSE 0]
      r == SwapBytes(ext, c, inConstantExpression)
  IN  [value |-> ToSigned(Convert(r.value, Len(u))), shifts |-> r.shifts]

\* SwapBytes for signed T
SwapBytesSigned(value, c, inConstantExpression) ==
  LET r == SwapBytes(ToUnsigned(value), c, inConstantExpression)
  IN  [value |-> ToSigned(r.value), shifts |-> r.shifts]

\* as FromLittleEndianLoop, with each byte shifted by 8 * (i + 1)
RECURSIVE FromLittleEndianLoopShiftedOn(_, _, _, _, _)
FromLittleEndianLoopShiftedOn(t, bytes, i, val, sh) ==
  LET w == Len(bytes)
      m == MathType(t).size
  IN  IF i < w
        THEN FromLittleEndianLoopShiftedOn(
               t, bytes, i + 1,
               ConvertTo(t, WordOr(Convert(val, m),
                                   ShiftLeft(Convert(<<bytes[i + 1]>>, m),
                                             8 * (i + 1)))),
               sh \cup {Shift(8 * (i + 1), m)})
        ELSE [value |-> val, shifts |-> sh]

\* as FromLittleEndianLoop, with = in place of |=
RECURSIVE FromLittleEndianLoopAssign(_, _, _, _, _)
FromLittleEndianLoopAssign(t, bytes, i, val, sh) ==
  LET w == Len(bytes)
      m == MathType(t).size
  IN  IF i < w
        THEN FromLittleEndianLoopAssign(
               t, bytes, i + 1,
               ConvertTo(t, ShiftLeft(Convert(<<bytes[i + 1]>>, m), 8 * i)),
               sh \cup {Shift(8 * i, m)})
        ELSE [value |-> val, shifts |-> sh]

\* the loop of FromLittleEndian from index i (0-based) on, val being the
\* value assembled so far and sh the shifts executed so far
RECURSIVE FromLittleEndianLoop(_, _, _, _, _)
FromLittleEndianLoop(t, bytes, i, val, sh) ==
  LET w == Len(bytes)
      m == MathType(t).size
  IN  IF i < w
        THEN FromLittleEndianLoop(
               t, bytes, i + 1,
               ConvertTo(t, WordOr(Convert(val, m),
                                   ShiftLeft(Convert(<<bytes[i + 1]>>, m), 8 * i))),
               sh \cup {Shift(8 * i, m)})
        ELSE [value |-> val, shifts |-> sh]

\* the branch of FromLittleEndian taken when cxx17_is_constant_evaluated()
FromLittleEndianConstant(t, bytes) ==
  FromLittleEndianLoop(t, bytes, 0, Literal(0, Len(bytes)), {})

\* what a call gives when the process ends inside it: no value
NoValue == <<>>

\* what a read of an object of type t can give when its bytes in memory are b.
\* A bool object holding a byte other than 0 and 1 has no value and the read
\* at `return val` is undefined: a build takes the byte as it is (int(r)),
\* or as true (if (r), a test against zero), or as false (switch (r), !r,
\* r == true, a test of the lowest bit of an even byte), and a build that
\* traps on the read ends the process there, so the call gives no value.
\* Uses of one returned object need not agree with each other; each is one
\* of these outcomes.
ReadObject(t, b) ==
  IF t.bool /\ b[1] \notin {0, 1}
    THEN {b, <<1>>, <<0>>, NoValue}
    ELSE {ValueOfRepresentation(b)}

\* the branch of FromLittleEndian taken otherwise: the results it can give
FromLittleEndianMemcpy(t, bytes) ==
  {[value |-> v, shifts |-> {}] :
     v \in ReadObject(t, Memcpy(bytes, Len(bytes)))}

\* the results FromLittleEndian can give
FromLittleEndian(t, bytes, c, inConstantExpression) ==
  IF cxx17_is_constant_evaluated(c, inConstantExpression)
    THEN {FromLittleEndianConstant(t, bytes)}
    ELSE FromLittleEndianMemcpy(t, bytes)

\* as ToLittleEndianLoop, with val never shifted
RECURSIVE ToLittleEndianLoopNoShift(_, _, _, _)
ToLittleEndianLoopNoShift(val, i, bytes, sh) ==
  LET w == Len(val)
      p == PromotedSize(w)
      last_byte == Convert(WordAnd(Convert(val, p), Literal(255, p)), 1)[1]
      stored == [bytes EXCEPT ![i + 1] = last_byte]
  IN  IF i < w
        THEN ToLittleEndianLoopNoShift(val, i + 1, stored, sh)
        ELSE [value |-> bytes, shifts |-> sh]

\* the loop of ToLittleEndian from index i (0-based) on, bytes being the
\* array filled so far and sh the shifts executed so far
RECURSIVE ToLittleEndianLoop(_, _, _, _)
ToLittleEndianLoop(val, i, bytes, sh) ==
  LET w == Len(val)
      p == PromotedSize(w)
      last_byte == Convert(WordAnd(Convert(val, p), Literal(255, p)), 1)[1]
      stored == [bytes EXCEPT ![i + 1] = last_byte]
  IN  IF i < w
        THEN IF w > 1
               THEN ToLittleEndianLoop(
                      Convert(ShiftRight(Convert(val, p), 8), w), i + 1,
                      stored, sh \cup {Shift(8, p)})
               ELSE ToLittleEndianLoop(val, i + 1, stored, sh)
        ELSE [value |-> bytes, shifts |-> sh]

\* the branch of ToLittleEndian taken when cxx17_is_constant_evaluated()
ToLittleEndianConstant(val) ==
  ToLittleEndianLoop(val, 0, Zero(Len(val)), {})

\* the branch of ToLittleEndian taken otherwise
ToLittleEndianMemcpy(val) ==
  [value |-> Memcpy(ObjectRepresentation(val), Len(val)), shifts |-> {}]

ToLittleEndian(val, c, inConstantExpression) ==
  IF cxx17_is_constant_evaluated(c, inConstantExpression)
    THEN ToLittleEndianConstant(val)
    ELSE ToLittleEndianMemcpy(val)

----------------------------------------------------------------------------
(* The state machine: a build (compiler) and the calls made to the header. *)
(* op is the last call, T its type, constEval what                         *)
(* cxx17_is_constant_evaluated() returned in it, arg its argument, res its *)
(* result and shifts the shifts it executed.  The two composed calls keep  *)
(* the argument of the first call in arg; op is "Terminated" when the      *)
(* process ended inside the call.  Calls are independent of each           *)
(* other: each starts from the state in which no call has been made.       *)

Unsigned(w) == [size |-> w, signed |-> FALSE, bool |-> FALSE]

Signed(w) == [size |-> w, signed |-> TRUE, bool |-> FALSE]

Init ==
  /\ compiler \in Compilers
  /\ op = "none"
  /\ T = Unsigned(1)
  /\ constEval = FALSE
  /\ arg = <<0>>
  /\ res = <<0>>
  /\ shifts = {}

CallMathType ==
  /\ op = "none"
  /\ \E t \in IntegralTypes :
       /\ op' = "MathType"
       /\ T' = t
       /\ arg' = t
       /\ res' = MathType(t)
       /\ constEval' = FALSE
       /\ shifts' = {}
       /\ UNCHANGED compiler

CallSwapBytes ==
  /\ op = "none"
  /\ \E t \in UnsignedTypes, ctx \in BOOLEAN :
       \E v \in Values(t) :
         LET r == SwapBytes(v, compiler, ctx) IN
         /\ op' = "SwapBytes"
         /\ T' = t
         /\ constEval' = cxx17_is_constant_evaluated(compiler, ctx)
         /\ arg' = v
         /\ res' = r.value
         /\ shifts' = r.shifts
         /\ UNCHANGED compiler

CallSwapBytesSigned ==
  /\ op = "none"
  /\ \E w \in Widths, ctx \in BOOLEAN :
       \E v \in SignedValues(w) :
         LET r == SwapBytesSigned(v, compiler, ctx) IN
         /\ op' = "SwapBytes"
         /\ T' = Signed(w)
         /\ constEval' = cxx17_is_constant_evaluated(compiler, ctx)
         /\ arg' = v
         /\ res' = r.value
         /\ shifts' = r.shifts
         /\ UNCHANGED compiler

\* SwapBytes applied to the result of the last SwapBytes
CallSwapBytesAgain ==
  /\ op = "SwapBytes"
  /\ \E ctx \in BOOLEAN :
       LET r == IF T.signed THEN SwapBytesSigned(res, compiler, ctx)
                            ELSE SwapBytes(res, compiler, ctx)
       IN
       /\ op' = "SwapBytesTwice"
       /\ constEval' = cxx17_is_constant_evaluated(compiler, ctx)
       /\ res' = r.value
       /\ shifts' = r.shifts
       /\ UNCHANGED <<compiler, T, arg>>

CallFromLittleEndian ==
  /\ op = "none"
  /\ \E t \in UnsignedTypes, ctx \in BOOLEAN :
       \E b \in ByteSeqs(t.size) :
         \E r \in FromLittleEndian(t, b, compiler, ctx) :
         /\ op' = IF r.value = NoValue THEN "Terminated"
                                       ELSE "FromLittleEndian"
         /\ T' = t
         /\ constEval' = cxx17_is_constant_evaluated(compiler, ctx)
         /\ arg' = b
         /\ res' = r.value
         /\ shifts' = r.shifts
         /\ UNCHANGED compiler

CallToLittleEndian ==
  /\ op = "none"
  /\ \E t \in UnsignedTypes, ctx \in BOOLEAN :
       \E v \in Values(t) :
         LET r == ToLittleEndian(v, compiler, ctx) IN
         /\ op' = "ToLittleEndian"
         /\ T' = t
         /\ constEval' = cxx17_is_constant_evaluated(compiler, ctx)
         /\ arg' = v
         /\ res' = r.value
         /\ shifts' = r.shifts
         /\ UNCHANGED compiler

\* FromLittleEndian applied to the result of the last ToLittleEndian
CallFromLittleEndianOfResult ==
  /\ op = "ToLittleEndian"
  /\ \E ctx \in BOOLEAN :
       \E r \in FromLittleEndian(T, res, compiler, ctx) :
       /\ op' = IF r.value = NoValue THEN "Terminated" ELSE "RoundTrip"
       /\ constEval' = cxx17_is_constant_evaluated(compiler, ctx)
       /\ res' = r.value
       /\ shifts' = r.shifts
       /\ UNCHANGED <<compiler, T, arg>>

Next ==
  \/ CallMathType
  \/ CallSwapBytes
  \/ CallSwapBytesSigned
  \/ CallSwapBytesAgain
  \/ CallFromLittleEndian
  \/ CallToLittleEndian
  \/ CallFromLittleEndianOfResult

Spec == Init /\ [][Next]_vars

----------------------------------------------------------------------------
(* Properties *)

\* the byte at position i (0 = least significant) of a word
ByteAt(x, i) == x[i + 1]

\* (v >> (8 * i)) & 0xFF as a number
ShiftedMasked(v, i) ==
  Convert(WordAnd(ShiftRight(v, 8 * i), Literal(255, Len(v))), 1)[1]

\* x - y modulo 2^(8 * Len(x)), digit by digit with a borrow
RECURSIVE SubBorrow(_, _, _)
SubBorrow(x, y, bw) ==
  IF x = <<>> THEN <<>>
  ELSE <<(x[1] - y[1] - bw + 256) % 256>>
       \o SubBorrow(Tail(x), Tail(y), IF x[1] - y[1] - bw < 0 THEN 1 ELSE 0)

\* the two's-complement bit pattern of a signed value, as an unsigned word
BitPattern(s) ==
  IF s.neg THEN SubBorrow(Zero(Len(s.mag)), s.mag, 0) ELSE s.mag

\* s is a value of the signed type of w bytes: -2^(8w-1) <= s < 2^(8w-1)
IsSignedValue(s, w) ==
  /\ Len(s.mag) = w
  /\ \A i \in 1..w : s.mag[i] \in Byte
  /\ ~s.neg => s.mag[w] < 128
  /\ s.neg => s.mag # Zero(w) /\ (s.mag[w] < 128 \/ s.mag = MinMagnitude(w))

UnsignedCall(name) == op = name /\ ~T.signed

\* C1: SwapBytes of an unsigned value of 1, 2, 4 or 8 bytes puts the byte at
\* position i of the value at position (w-1-i) of the result; a 1-byte value is
\* returned as it is, 0x1234 gives 0x3412, 0xAABBCCDD gives 0xDDCCBBAA and
\* 0x0102030405060708 gives 0x0807060504030201.
SwapBytesMirrorsBytes ==
  UnsignedCall("SwapBytes") =>
    /\ Len(res) = T.size
    /\ \A i \in 0..(T.size - 1) : ByteAt(res, T.size - 1 - i) = ByteAt(arg, i)
    /\ T.size = 1 => res = arg
    /\ arg = <<52, 18>> => res = <<18, 52>>
    /\ arg = <<221, 204, 187, 170>> => res = <<170, 187, 204, 221>>
    /\ arg = <<8, 7, 6, 5, 4, 3, 2, 1>> => res = <<1, 2, 3, 4, 5, 6, 7, 8>>

SwapBytesMirrorsBytesWitness ==
  /\ UnsignedCall("SwapBytes")
  /\ constEval
  /\ arg = <<8, 7, 6, 5, 4, 3, 2, 1>>
  /\ res = <<1, 2, 3, 4, 5, 6, 7, 8>>

\* C2: on every unsigned value the constant-evaluated branch of SwapBytes
\* (shift, mask, rebuild) and its run-time branch (the intrinsic) return the
\* same result, which is the result of the call whichever branch it took.
SwapBytesBranchesAgree ==
  UnsignedCall("SwapBytes") =>
    /\ SwapBytesConstant(arg).value = SwapBytesIntrinsic(arg, compiler)
    /\ res = SwapBytesConstant(arg).value
    /\ res = SwapBytesIntrinsic(arg, compiler)

SwapBytesBranchesAgreeWitness ==
  /\ UnsignedCall("SwapBytes")
  /\ ~constEval
  /\ compiler = "msvc"
  /\ arg = <<221, 204, 187, 170>>
  /\ res = SwapBytesConstant(arg).value

\* C3: for every type the unsigned templates accept, on every byte sequence
\* the constant-evaluated branch of FromLittleEndian (shift assembly) and its
\* run-time branch (memcpy) return the same value, and on every value the two
\* branches of ToLittleEndian return the same byte sequence.
CodecBranchesAgree ==
  /\ UnsignedCall("FromLittleEndian") =>
       /\ \A r \in FromLittleEndianMemcpy(T, arg) :
            r.value = FromLittleEndianConstant(T, arg).value
       /\ res = FromLittleEndianConstant(T, arg).value
  /\ UnsignedCall("ToLittleEndian") =>
       /\ ToLittleEndianConstant(arg).value = ToLittleEndianMemcpy(arg).value
       /\ res = ToLittleEndianConstant(arg).value
       /\ res = ToLittleEndianMemcpy(arg).value

\* C4: FromLittleEndian(ToLittleEndian(v)) is v for every unsigned v.
RoundTripIsIdentity ==
  UnsignedCall("RoundTrip") => res = arg

RoundTripIsIdentityWitness ==
  /\ UnsignedCall("RoundTrip")
  /\ constEval
  /\ T.size = 8
  /\ arg = <<8, 7, 6, 5, 4, 3, 2, 1>>
  /\ res = arg

\* C5: ToLittleEndian(v) is a sequence of exactly sizeof(T) bytes whose
\* element at index i is (v >> (8 * i)) & 0xFF, the least significant byte
\* first; 0x0102030405060708 gives [8, 7, 6, 5, 4, 3, 2, 1].
ToLittleEndianBytes ==
  UnsignedCall("ToLittleEndian") =>
    /\ Len(res) = T.size
    /\ \A i \in 0..(T.size - 1) : res[i + 1] = ShiftedMasked(arg, i)
    /\ arg = <<8, 7, 6, 5, 4, 3, 2, 1>> => res = <<8, 7, 6, 5, 4, 3, 2, 1>>

ToLittleEndianBytesWitness ==
  /\ UnsignedCall("ToLittleEndian")
  /\ constEval
  /\ arg = <<8, 7, 6, 5, 4, 3, 2, 1>>
  /\ res[1] = 8
  /\ res[8] = 1

\* C6: for every type the unsigned templates accept, FromLittleEndian(b) is
\* the sum of b[i] * 256^i: the base-256 digit of weight 256^i of the result
\* is b[i] and the result has no other digit.
FromLittleEndianValue ==
  UnsignedCall("FromLittleEndian") =>
    /\ Len(res) = T.size
    /\ \A i \in 0..(T.size - 1) : ByteAt(res, i) = arg[i + 1]

\* C7: SwapBytes(SwapBytes(v)) is v for every value of every integer type of
\* 1, 2, 4 or 8 bytes, signed or unsigned.
SwapBytesInvolution ==
  op = "SwapBytesTwice" => res = arg

SwapBytesInvolutionWitness ==
  /\ op = "SwapBytesTwice"
  /\ T = Signed(2)
  /\ arg = [neg |-> TRUE, mag |-> <<2, 0>>]
  /\ res = arg

\* C8: for a signed value the bit pattern of SwapBytes(v) is the unsigned
\* SwapBytes of the bit pattern of v, and the result is the value of T with
\* that pattern; int16(-2), pattern 0xFFFE, gives pattern 0xFEFF, which is -257.
SignedSwapsBitPattern ==
  (op = "SwapBytes" /\ T.signed) =>
    /\ IsSignedValue(res, T.size)
    /\ BitPattern(res) = Reverse(BitPattern(arg))
    /\ BitPattern(res)
         = SwapBytes(BitPattern(arg), compiler, constEval).value
    /\ arg = [neg |-> TRUE, mag |-> <<2, 0>>] =>
         /\ BitPattern(arg) = <<254, 255>>
         /\ BitPattern(res) = <<255, 254>>
         /\ res = [neg |-> TRUE, mag |-> <<1, 1>>]

SignedSwapsBitPatternWitness ==
  /\ op = "SwapBytes"
  /\ T = Signed(2)
  /\ arg = [neg |-> TRUE, mag |-> <<2, 0>>]
  /\ res = [neg |-> TRUE, mag |-> <<1, 1>>]

\* C9: MathType<T> is T when sizeof(T) >= sizeof(int), otherwise int for a
\* signed T and unsigned int for an unsigned T; it is never narrower than int
\* and has the signedness of T.
MathTypeSelection ==
  op = "MathType" =>
    /\ T.size >= SizeofInt => res = T
    /\ (T.size < SizeofInt /\ T.signed) => res = IntType
    /\ (T.size < SizeofInt /\ ~T.signed) => res = UnsignedIntType
    /\ res.size >= SizeofInt
    /\ res.signed = T.signed

MathTypeSelectionWitness ==
  /\ op = "MathType"
  /\ T = Unsigned(2)
  /\ res = UnsignedIntType

\* C10: every shift executed by the constant-evaluated paths of SwapBytes,
\* FromLittleEndian and ToLittleEndian has an amount smaller than the bit
\* width of its promoted left operand, and a 1-byte type is never shifted
\* by 8.
ShiftsInRange ==
  op \in {"SwapBytes", "SwapBytesTwice", "FromLittleEndian",
          "ToLittleEndian", "RoundTrip"} =>
    /\ \A s \in shifts : 0 <= s.amount /\ s.amount < s.bits
    /\ \A s \in shifts : s.bits >= 8 * PromotedSize(T.size)
    /\ T.size = 1 => \A s \in shifts : s.amount # 8

ShiftsInRangeWitness ==
  /\ op = "FromLittleEndian"
  /\ constEval
  /\ T.size = 8
  /\ Shift(56, 8) \in shifts

====
